---- MODULE Spec2Model ----
(***************************************************************************)
(* Model of assignments/address_derivative/src/main.rs: one run of main    *)
(* draws bytes from OsRng, generates a 12-word BIP39 mnemonic, recovers    *)
(* its entropy, stretches it into a seed, derives the BIP44 child key at   *)
(* m/44'/60'/0'/0/0 and prints the Ethereum address of its public key.     *)
(*                                                                         *)
(* Byte strings are sequences over 0..255 with the lengths of the program. *)
(* Printed text is a sequence of one-character strings.  The primitives of *)
(* the crates (SHA-256, PBKDF2, HMAC-SHA512, secp256k1 point               *)
(* multiplication, Keccak-256) are deterministic stand-ins with the real   *)
(* input and output lengths; everything around them (bit packing, slicing, *)
(* path parsing, scalar arithmetic mod n, hex encoding, control flow) is   *)
(* computed as the code computes it.                                       *)
(***************************************************************************)
EXTENDS Integers, Sequences, FiniteSets, TLC

(* ---------------------------------------------------------------------- *)
(* Bounds                                                                  *)
(* ---------------------------------------------------------------------- *)

\* number of distinct outcomes of one OsRng.fill_bytes call that are explored
NumDraws == 4

(* ---------------------------------------------------------------------- *)
(* Program constants                                                       *)
(* ---------------------------------------------------------------------- *)

\* let mut array = [0u8; 12]
ArrayLen == 12

\* Mnemonic::generate_in_with(&mut rng, Language::English, 12)
WordCount == 12

\* bip39 limits on the word count
MIN_NB_WORDS == 12

MAX_NB_WORDS == 24

\* each word of the list carries 11 bits (2048-word list)
BitsPerWord == 11

\* the slice taken one byte early
AddressOffsetEarly == 12 - 1

\* &hash[12..]
AddressOffset == 12

\* &pubkey_bytes[1..]
PrefixLen == 1

\* mnemonic.to_seed("")
Passphrase == <<>>

\* the path with the hardening mark of the account segment left out
DerivationPathAccountNormal ==
  <<"m", "/", "4", "4", "'", "/", "6", "0", "'", "/", "0", "/", "0", "/", "0">>

\* "m/44'/60'/0'/0/0"
DerivationPath == <<"m", "/", "4", "4", "'", "/", "6", "0", "'", "/", "0", "'", "/", "0", "/", "0">>

\* order n of secp256k1, big-endian
CurveOrder ==
  <<255, 255, 255, 255, 255, 255, 255, 255, 255, 255, 255, 255, 255, 255, 255, 254,
    186, 174, 220, 230, 175, 72, 160, 59, 191, 210, 94, 140, 208, 54, 65, 65>>

None == <<>>

\* failure while no stage has failed
NoFailure == "none"

(* ---------------------------------------------------------------------- *)
(* Bytes, bits and text                                                    *)
(* ---------------------------------------------------------------------- *)

HexDigits == <<"0", "1", "2", "3", "4", "5", "6", "7", "8", "9", "a", "b", "c", "d", "e", "f">>

DecDigits == <<"0", "1", "2", "3", "4", "5", "6", "7", "8", "9">>

\* the concatenation of ss[lo..hi], by halves
RECURSIVE FlattenRange(_, _, _)
FlattenRange(ss, lo, hi) ==
  IF lo > hi THEN <<>>
  ELSE IF lo = hi THEN ss[lo]
  ELSE LET mid == (lo + hi) \div 2
       IN  FlattenRange(ss, lo, mid) \o FlattenRange(ss, mid + 1, hi)

Flatten(ss) == FlattenRange(ss, 1, Len(ss))

\* hex::encode: two lowercase digits per byte, high nibble first
HexEncode(bytes) ==
  [k \in 1..(2 * Len(bytes)) |->
     IF k % 2 = 1 THEN HexDigits[(bytes[(k + 1) \div 2] \div 16) + 1]
     ELSE HexDigits[(bytes[k \div 2] % 16) + 1]]

\* Display of an unsigned integer: decimal, no leading zeros
RECURSIVE DecNat(_)
DecNat(v) ==
  IF v < 10 THEN <<DecDigits[v + 1]>>
  ELSE DecNat(v \div 10) \o <<DecDigits[(v % 10) + 1]>>

\* Debug of [u8; N]: "[a, b, c]"
DebugArray(bytes) ==
  <<"[">> \o
  Flatten([i \in 1..Len(bytes) |->
             (IF i = 1 THEN <<>> ELSE <<",", " ">>) \o DecNat(bytes[i])]) \o
  <<"]">>

\* bit k (1-based, most significant first) of a byte string
BitAt(bytes, k) == (bytes[((k - 1) \div 8) + 1] \div (2 ^ (7 - ((k - 1) % 8)))) % 2

BitsOf(bytes) == [k \in 1..(8 * Len(bytes)) |-> BitAt(bytes, k)]

\* the value of a bit string, most significant bit first
RECURSIVE BitsToNat(_)
BitsToNat(bits) ==
  IF bits = <<>> THEN 0
  ELSE IF Len(bits) = 1 THEN bits[1]
  ELSE LET mid == Len(bits) \div 2
       IN  BitsToNat(SubSeq(bits, 1, mid)) * (2 ^ (Len(bits) - mid))
           + BitsToNat(SubSeq(bits, mid + 1, Len(bits)))

NatToBits(v, n) == [j \in 1..n |-> (v \div (2 ^ (n - j))) % 2]

(* ---------------------------------------------------------------------- *)
(* Stand-ins for the primitives of the crates                              *)
(* ---------------------------------------------------------------------- *)

\* a 16-bit mix of bytes[lo..hi], by halves
RECURSIVE MixRange(_, _, _)
MixRange(bytes, lo, hi) ==
  IF lo = hi THEN (bytes[lo] * 257 + lo * 7 + 1) % 65521
  ELSE LET mid == (lo + hi) \div 2
       IN  (MixRange(bytes, lo, mid) * 31 + MixRange(bytes, mid + 1, hi) * 17 + 3) % 65521

Absorb(h, bytes) ==
  IF bytes = <<>> THEN h
  ELSE (h * 131 + MixRange(bytes, 1, Len(bytes)) * 29 + Len(bytes)) % 65521

\* a digest of len bytes; the classes g = 0 and g = 1 stand for the
\* degenerate digests (all zero, all ones) that a real digest can take
Squeeze(h, len) ==
  LET g == h % 19
  IN  IF g = 0 THEN [i \in 1..len |-> 0]
      ELSE IF g = 1 THEN [i \in 1..len |-> 255]
      ELSE [i \in 1..len |-> (h * (2 * i + 1) + g * i * i + (h \div 256)) % 256]

Sha256(data) == Squeeze(Absorb(101, data), 32)

HmacSha512(key, data) == Squeeze(Absorb(Absorb(211, key) + 7, data), 64)

Keccak256(data) == Squeeze(Absorb(307, data), 32)

\* PBKDF2-HMAC-SHA512(password, salt, 2048 rounds) -> 64 bytes
Pbkdf2(password, salt) == Squeeze(Absorb(Absorb(401, password) + 13, salt), 64)

\* affine coordinates (X, Y) of scalar * G, 32 bytes each
PointMul(scalar) ==
  LET xy == Squeeze(Absorb(503, scalar), 64)
  IN  [x |-> SubSeq(xy, 1, 32), y |-> SubSeq(xy, 33, 64)]

\* the bytes one OsRng.fill_bytes call writes, for outcome d of the source
OsRngBytes(d, n) == [i \in 1..n |-> (d * (16 * i + 7) + d * d * 5) % 256]

(* ---------------------------------------------------------------------- *)
(* bip39: Mnemonic                                                         *)
(* ---------------------------------------------------------------------- *)

Ok(v) == [ok |-> TRUE, val |-> v]

Err(e) == [ok |-> FALSE, val |-> e]

is_invalid_word_count(word_count) ==
  word_count < MIN_NB_WORDS \/ word_count % 3 # 0 \/ word_count > MAX_NB_WORDS

\* Mnemonic::from_entropy_in: entropy bits, then the first nb_bytes/4 bits of
\* SHA-256(entropy), cut into 11-bit word indices
from_entropy_in(entropy) ==
  LET nb_bytes == Len(entropy)
      nb_bits == nb_bytes * 8
      check == Sha256(entropy)
      bits == BitsOf(entropy) \o [i \in 1..(nb_bytes \div 4) |-> BitAt(check, i)]
      nb_words == (nb_bytes * 3) \div 4
  IN  IF nb_bits % 32 # 0 \/ nb_bits < 128 \/ nb_bits > 256
      THEN Err("BadEntropyBitCount")
      ELSE Ok([i \in 1..nb_words |->
                 BitsToNat(SubSeq(bits, (i - 1) * BitsPerWord + 1, i * BitsPerWord))])

\* Mnemonic::to_entropy: the word indices as a bit string, without the
\* trailing checksum bits
to_entropy(words) ==
  LET bits == [k \in 1..(BitsPerWord * Len(words)) |->
                 NatToBits(words[((k - 1) \div BitsPerWord) + 1], BitsPerWord)[((k - 1) % BitsPerWord) + 1]]
      entropy_bytes == (Len(words) \div 3) * 4
  IN  [k \in 1..entropy_bytes |-> BitsToNat(SubSeq(bits, 8 * k - 7, 8 * k))]

\* Display of a Mnemonic: the words separated by one space; the word at
\* index i of the word list is written #i
MnemonicText(words) ==
  Flatten([i \in 1..Len(words) |->
             (IF i = 1 THEN <<>> ELSE <<" ">>) \o <<"#">> \o DecNat(words[i])])

\* the UTF-8 bytes of the phrase; a word is stood for by its two index bytes
MnemonicBytes(words) ==
  Flatten([i \in 1..Len(words) |->
             (IF i = 1 THEN <<>> ELSE <<32>>) \o <<words[i] \div 256, words[i] % 256>>])

\* Mnemonic::to_seed: PBKDF2 with salt "mnemonic" + passphrase
to_seed(words, passphrase) ==
  Pbkdf2(MnemonicBytes(words), <<109, 110, 101, 109, 111, 110, 105, 99>> \o passphrase)

(* ---------------------------------------------------------------------- *)
(* secp256k1 scalars                                                       *)
(* ---------------------------------------------------------------------- *)

Zero32 == [i \in 1..32 |-> 0]

\* a < b for big-endian numbers of the same length
LessThan(a, b) ==
  \E i \in 1..Len(a) : a[i] < b[i] /\ \A j \in 1..(i - 1) : a[j] = b[j]

\* the carry into byte i of a + b
CarryInto(a, b, i) ==
  IF \E j \in (i + 1)..Len(a) :
       a[j] + b[j] > 255 /\ \A k \in (i + 1)..(j - 1) : a[k] + b[k] = 255
  THEN 1 ELSE 0

\* a + b with a leading carry byte
AddBytes(a, b) ==
  <<CarryInto(a, b, 0)>> \o [i \in 1..Len(a) |-> (a[i] + b[i] + CarryInto(a, b, i)) % 256]

\* the borrow into byte i of a - b
BorrowInto(a, b, i) ==
  IF \E j \in (i + 1)..Len(a) :
       a[j] < b[j] /\ \A k \in (i + 1)..(j - 1) : a[k] = b[k]
  THEN 1 ELSE 0

\* a - b for a >= b
SubBytes(a, b) == [i \in 1..Len(a) |-> (a[i] - b[i] - BorrowInto(a, b, i) + 256) % 256]

\* SecretKey::from_slice / SigningKey::from_slice: 32 bytes, non-zero, < n
IsValidScalar(k) == Len(k) = 32 /\ k # Zero32 /\ LessThan(k, CurveOrder)

\* (a + b) mod n for a, b < n
ScalarAdd(a, b) ==
  LET s == AddBytes(a, b)
      n == <<0>> \o CurveOrder
  IN  Tail(IF LessThan(s, n) THEN s ELSE SubBytes(s, n))

\* SEC1 encodings of the public key of a scalar
UncompressedPoint(p) == <<4>> \o p.x \o p.y

CompressedPoint(p) == <<2 + (p.y[32] % 2)>> \o p.x

(* ---------------------------------------------------------------------- *)
(* tiny_hderive: derivation path and child keys                            *)
(* ---------------------------------------------------------------------- *)

RECURSIVE Split(_, _)
Split(chars, sep) ==
  IF \A i \in 1..Len(chars) : chars[i] # sep THEN <<chars>>
  ELSE LET k == CHOOSE i \in 1..Len(chars) :
                  chars[i] = sep /\ \A j \in 1..(i - 1) : chars[j] # sep
       IN  <<SubSeq(chars, 1, k - 1)>> \o Split(SubSeq(chars, k + 1, Len(chars)), sep)

IsDigit(c) == \E d \in 1..10 : DecDigits[d] = c

DigitVal(c) == (CHOOSE d \in 1..10 : DecDigits[d] = c) - 1

\* acc * 10 + carry on a big-endian u32; the result has a leading overflow byte
RECURSIVE MulAdd(_, _, _)
MulAdd(acc, i, carry) ==
  IF i = 0 THEN <<carry>>
  ELSE LET v == acc[i] * 10 + carry
       IN  MulAdd(acc, i - 1, v \div 256) \o <<v % 256>>

RECURSIVE ParseDigits(_, _)
ParseDigits(chars, acc) ==
  IF chars = <<>> THEN Ok(acc)
  ELSE IF ~IsDigit(Head(chars)) THEN Err("ParseIntError")
  ELSE LET r == MulAdd(acc, 4, DigitVal(Head(chars)))
       IN  IF Head(r) # 0 THEN Err("ParseIntError") ELSE ParseDigits(Tail(chars), Tail(r))

\* u32::from_str, as the four big-endian bytes of the value
ParseU32(chars) ==
  LET digits == IF chars # <<>> /\ Head(chars) = "+" THEN Tail(chars) ELSE chars
  IN  IF digits = <<>> THEN Err("ParseIntError") ELSE ParseDigits(digits, <<0, 0, 0, 0>>)

\* ChildNumber::from_str: a trailing ' sets the hardened bit (2^31) of the
\* index, which must itself be below 2^31
ChildNumberFromStr(child) ==
  LET hardened == child # <<>> /\ child[Len(child)] = "'"
      digits == IF hardened THEN SubSeq(child, 1, Len(child) - 1) ELSE child
      mask == IF hardened THEN 128 ELSE 0
      index == ParseU32(digits)
  IN  IF ~index.ok THEN Err("InvalidChildNumber")
      ELSE IF index.val[1] >= 128 THEN Err("InvalidChildNumber")
      ELSE Ok(<<index.val[1] + mask>> \o Tail(index.val))

\* DerivationPath::from_str
DerivationPathFromStr(path) ==
  LET parts == Split(path, "/")
      children == [i \in 1..(Len(parts) - 1) |-> ChildNumberFromStr(parts[i + 1])]
  IN  IF Head(parts) # <<"m">> THEN Err("InvalidDerivationPath")
      ELSE IF \E i \in 1..Len(children) : ~children[i].ok THEN Err("InvalidChildNumber")
      ELSE Ok([i \in 1..Len(children) |-> children[i].val])

ChildIsNormal(child) == child[1] < 128

\* the master key: HMAC-SHA512 keyed "Bitcoin seed" over the seed
MasterKey(seed) ==
  LET result == HmacSha512(<<66, 105, 116, 99, 111, 105, 110, 32, 115, 101, 101, 100>>, seed)
      secret_key == SubSeq(result, 1, 32)
  IN  IF ~IsValidScalar(secret_key) THEN Err("Secp256k1")
      ELSE Ok([secret_key |-> secret_key, chain_code |-> SubSeq(result, 33, 64)])

\* ExtendedPrivKey::child
ChildKey(parent, child) ==
  LET data == (IF ChildIsNormal(child)
               THEN CompressedPoint(PointMul(parent.secret_key))
               ELSE <<0>> \o parent.secret_key) \o child
      result == HmacSha512(parent.chain_code, data)
      il == SubSeq(result, 1, 32)
      sum == ScalarAdd(il, parent.secret_key)
  IN  IF ~IsValidScalar(il) THEN Err("Secp256k1")
      ELSE IF sum = Zero32 THEN Err("Secp256k1")
      ELSE Ok([secret_key |-> sum, chain_code |-> SubSeq(result, 33, 64)])

(* ---------------------------------------------------------------------- *)
(* State of one run of main                                                *)
(* ---------------------------------------------------------------------- *)

VARIABLES
  pc,           \* the statement of main that runs next
  status,       \* "running", "exited" (main returned) or "panicked"
  failure,      \* the error a stage failed with, NoFailure while there is none
  array,        \* let mut array
  mnemonic,     \* the word indices of let mnemonic
  entropy,      \* let entropy
  seed,         \* let seed
  path,         \* derive: the parsed derivation path
  sk,           \* derive: let mut sk, the key the walk is at
  child_key,    \* let child_key
  signing_key,  \* the scalar of let signing_key
  public_key,   \* the point of let public_key
  pubkey,       \* let pubkey
  hash,         \* let hash
  address,      \* let address
  output,       \* the lines printed to stdout
  rngCalls,     \* history: calls of OsRng.fill_bytes in this run
  applied,      \* history: the child numbers derive has applied
  keys,         \* history: the keys sk has held, the master key first
  events,       \* history: the stages this run has executed
  prev          \* history: the values of the last run that printed an address

vars == <<pc, status, failure, array, mnemonic, entropy, seed, path, sk, child_key,
          signing_key, public_key, pubkey, hash, address, output, rngCalls,
          applied, keys, events, prev>>

Draws == 0..(NumDraws - 1)

Line(label, text) == [label |-> label, text |-> text]

Start ==
  /\ pc = "fill_bytes"
  /\ status = "running"
  /\ failure = NoFailure
  /\ array = None
  /\ mnemonic = None
  /\ entropy = None
  /\ seed = None
  /\ path = None
  /\ sk = None
  /\ child_key = None
  /\ signing_key = None
  /\ public_key = None
  /\ pubkey = None
  /\ hash = None
  /\ address = None
  /\ output = <<>>
  /\ rngCalls = 0
  /\ applied = <<>>
  /\ keys = <<>>
  /\ events = <<>>

Init == Start /\ prev = None

\* the failure handed back to a caller as an error value
ReturnError(e) ==
  /\ status' = "returned_error"
  /\ failure' = e
  /\ pc' = "aborted"

\* a panic unwinds main: the process ends, nothing after it runs
Panic(e) ==
  /\ status' = "panicked"
  /\ failure' = e
  /\ pc' = "aborted"

\* the statement completes and main goes on to the next one
Run(next) ==
  /\ status' = "running"
  /\ failure' = failure
  /\ pc' = next

\* lines 17-18: let mut array = [0u8; 12]; OsRng.fill_bytes(&mut array)
\* fill_bytes panics when the OS source fails
FillBytes ==
  /\ pc = "fill_bytes" /\ status = "running"
  /\ rngCalls' = rngCalls + 1
  /\ events' = Append(events, "fill_bytes")
  /\ \E available \in BOOLEAN :
       IF available
       THEN /\ \E d \in Draws : array' = OsRngBytes(d, ArrayLen)
            /\ Run("print_entropy")
       ELSE /\ array' = [i \in 1..ArrayLen |-> 0]
            /\ Panic("OsRngError")
  /\ UNCHANGED <<mnemonic, entropy, seed, path, sk, child_key, signing_key, public_key,
                 pubkey, hash, address, output, applied, keys, prev>>

\* line 19: println!("Entropy: {:?}", array)
PrintEntropy ==
  /\ pc = "print_entropy" /\ status = "running"
  /\ output' = Append(output, Line("Entropy: ", DebugArray(array)))
  /\ events' = Append(events, "print_entropy")
  /\ Run("generate")
  /\ UNCHANGED <<array, mnemonic, entropy, seed, path, sk, child_key, signing_key,
                 public_key, pubkey, hash, address, rngCalls, applied, keys, prev>>

\* line 21: Mnemonic::generate_in_with(&mut rng, Language::English, 12).expect(..)
\* generate_in_with checks the word count, fills (word_count / 3) * 4 bytes
\* from the rng and encodes them
GenerateMnemonic ==
  /\ pc = "generate" /\ status = "running"
  /\ events' = Append(events, "generate")
  /\ IF is_invalid_word_count(WordCount)
     THEN /\ Panic("BadWordCount")
          /\ UNCHANGED <<mnemonic, rngCalls>>
     ELSE /\ rngCalls' = rngCalls + 1
          /\ \E available \in BOOLEAN :
               IF available
               THEN \E d \in Draws :
                      LET r == from_entropy_in(OsRngBytes(d, (WordCount \div 3) * 4))
                      IN  IF r.ok
                          THEN mnemonic' = r.val /\ Run("print_mnemonic")
                          ELSE Panic(r.val) /\ UNCHANGED mnemonic
               ELSE Panic("OsRngError") /\ UNCHANGED mnemonic
  /\ UNCHANGED <<array, entropy, seed, path, sk, child_key, signing_key, public_key,
                 pubkey, hash, address, output, applied, keys, prev>>

\* the mnemonic consumed without being displayed
PrintMnemonicOmitted ==
  /\ pc = "print_mnemonic" /\ status = "running"
  /\ events' = Append(events, "print_mnemonic")
  /\ Run("to_entropy")
  /\ UNCHANGED <<array, mnemonic, entropy, seed, path, sk, child_key, signing_key,
                 public_key, pubkey, hash, address, output, rngCalls, applied, keys, prev>>

\* lines 22-23: println!("Mnemonic phrase"); println!("{}", mnemonic)
PrintMnemonic ==
  /\ pc = "print_mnemonic" /\ status = "running"
  /\ output' = output \o <<Line("Mnemonic phrase", <<>>), Line("", MnemonicText(mnemonic))>>
  /\ events' = Append(events, "print_mnemonic")
  /\ Run("to_entropy")
  /\ UNCHANGED <<array, mnemonic, entropy, seed, path, sk, child_key, signing_key,
                 public_key, pubkey, hash, address, rngCalls, applied, keys, prev>>

\* line 26: let entropy = mnemonic.to_entropy()
ToEntropy ==
  /\ pc = "to_entropy" /\ status = "running"
  /\ entropy' = to_entropy(mnemonic)
  /\ events' = Append(events, "to_entropy")
  /\ Run("print_entropy_hex")
  /\ UNCHANGED <<array, mnemonic, seed, path, sk, child_key, signing_key, public_key,
                 pubkey, hash, address, output, rngCalls, applied, keys, prev>>

\* line 27: println!("Entropy (hex): {}", hex::encode(entropy))
PrintEntropyHex ==
  /\ pc = "print_entropy_hex" /\ status = "running"
  /\ output' = Append(output, Line("Entropy (hex): ", HexEncode(entropy)))
  /\ events' = Append(events, "print_entropy_hex")
  /\ Run("to_seed")
  /\ UNCHANGED <<array, mnemonic, entropy, seed, path, sk, child_key, signing_key,
                 public_key, pubkey, hash, address, rngCalls, applied, keys, prev>>

\* the seed stretched with the bytes of array as passphrase
ToSeedWithArray ==
  /\ pc = "to_seed" /\ status = "running"
  /\ seed' = to_seed(mnemonic, array)
  /\ events' = Append(events, "to_seed")
  /\ Run("derive")
  /\ UNCHANGED <<array, mnemonic, entropy, path, sk, child_key, signing_key, public_key,
                 pubkey, hash, address, output, rngCalls, applied, keys, prev>>

\* line 30: let seed = mnemonic.to_seed("")
ToSeed ==
  /\ pc = "to_seed" /\ status = "running"
  /\ seed' = to_seed(mnemonic, Passphrase)
  /\ events' = Append(events, "to_seed")
  /\ Run("derive")
  /\ UNCHANGED <<array, mnemonic, entropy, path, sk, child_key, signing_key, public_key,
                 pubkey, hash, address, output, rngCalls, applied, keys, prev>>

\* line 32: ExtendedPrivKey::derive(seed.as_slice(), "m/44'/60'/0'/0/0")
\* .expect("Derivation failed"), up to the loop over the path: the master
\* key of the seed and the parsed path
DeriveMaster ==
  /\ pc = "derive" /\ status = "running"
  /\ events' = Append(events, "derive")
  /\ LET m == MasterKey(seed)
         p == DerivationPathFromStr(DerivationPath)
     IN  IF ~m.ok THEN Panic(m.val) /\ UNCHANGED <<path, sk, child_key, keys>>
         ELSE IF ~p.ok
         THEN Panic(p.val) /\ sk' = m.val /\ keys' = <<m.val>> /\ UNCHANGED <<path, child_key>>
         ELSE /\ sk' = m.val
              /\ keys' = <<m.val>>
              /\ path' = p.val
              /\ IF p.val = <<>>
                 THEN child_key' = m.val /\ Run("signing_key")
                 ELSE UNCHANGED child_key /\ Run("derive_child")
  /\ UNCHANGED <<array, mnemonic, entropy, seed, signing_key, public_key, pubkey,
                 hash, address, output, rngCalls, applied, prev>>

\* a turn of the loop that records a failed child and walks on with its parent
DeriveChildRecovering ==
  /\ pc = "derive_child" /\ status = "running"
  /\ LET child == path[Len(applied) + 1]
         r == ChildKey(sk, child)
         next == IF r.ok THEN r.val ELSE sk
     IN  /\ sk' = next
         /\ failure' = IF r.ok THEN failure ELSE r.val
         /\ applied' = Append(applied, child)
         /\ keys' = Append(keys, next)
         /\ status' = "running"
         /\ IF Len(applied) + 1 = Len(path)
            THEN child_key' = next /\ pc' = "signing_key"
            ELSE UNCHANGED child_key /\ pc' = "derive_child"
  /\ UNCHANGED <<array, mnemonic, entropy, seed, path, signing_key, public_key,
                 pubkey, hash, address, output, rngCalls, events, prev>>

\* line 32, one turn of the loop of derive: sk = sk.child(*child)?; after
\* the last turn derive returns sk, which main binds to child_key
DeriveChild ==
  /\ pc = "derive_child" /\ status = "running"
  /\ LET child == path[Len(applied) + 1]
         r == ChildKey(sk, child)
     IN  IF ~r.ok THEN Panic(r.val) /\ UNCHANGED <<sk, child_key, applied, keys>>
         ELSE /\ sk' = r.val
              /\ applied' = Append(applied, child)
              /\ keys' = Append(keys, r.val)
              /\ IF Len(applied) + 1 = Len(path)
                 THEN child_key' = r.val /\ Run("signing_key")
                 ELSE UNCHANGED child_key /\ Run("derive_child")
  /\ UNCHANGED <<array, mnemonic, entropy, seed, path, signing_key, public_key,
                 pubkey, hash, address, output, rngCalls, events, prev>>

\* lines 34-35: SigningKey::from_slice(&child_key.secret()).expect("Invalid private key")
SigningKeyFromSlice ==
  /\ pc = "signing_key" /\ status = "running"
  /\ events' = Append(events, "signing_key")
  /\ IF IsValidScalar(child_key.secret_key)
     THEN signing_key' = child_key.secret_key /\ Run("public_key")
     ELSE Panic("InvalidPrivateKey") /\ UNCHANGED signing_key
  /\ UNCHANGED <<array, mnemonic, entropy, seed, path, sk, child_key, public_key,
                 pubkey, hash, address, output, rngCalls, applied, keys, prev>>

\* the encoded point hashed with its format byte
PublicKeyWithPrefix ==
  /\ pc = "public_key" /\ status = "running"
  /\ events' = Append(events, "public_key")
  /\ public_key' = PointMul(signing_key)
  /\ pubkey' = UncompressedPoint(PointMul(signing_key))
  /\ Run("keccak")
  /\ UNCHANGED <<array, mnemonic, entropy, seed, path, sk, child_key, signing_key,
                 hash, address, output, rngCalls, applied, keys, prev>>

\* lines 37-40: verifying_key(), to_encoded_point(false), &pubkey_bytes[1..]
PublicKey ==
  /\ pc = "public_key" /\ status = "running"
  /\ events' = Append(events, "public_key")
  /\ LET point == PointMul(signing_key)
         pubkey_bytes == UncompressedPoint(point)
     IN  /\ public_key' = point
         /\ pubkey' = SubSeq(pubkey_bytes, PrefixLen + 1, Len(pubkey_bytes))
  /\ Run("keccak")
  /\ UNCHANGED <<array, mnemonic, entropy, seed, path, sk, child_key, signing_key,
                 hash, address, output, rngCalls, applied, keys, prev>>

\* lines 42-43: let hash = Keccak256::digest(pubkey); let address = &hash[12..]
Keccak ==
  /\ pc = "keccak" /\ status = "running"
  /\ events' = Append(events, "keccak")
  /\ LET digest == Keccak256(pubkey)
     IN  /\ hash' = digest
         /\ address' = SubSeq(digest, AddressOffset + 1, Len(digest))
  /\ Run("print_address")
  /\ UNCHANGED <<array, mnemonic, entropy, seed, path, sk, child_key, signing_key,
                 public_key, pubkey, output, rngCalls, applied, keys, prev>>

\* line 45: println!("Ethereum address: 0x{}", hex::encode(address)); main returns
PrintAddress ==
  /\ pc = "print_address" /\ status = "running"
  /\ events' = Append(events, "print_address")
  /\ output' = Append(output, Line("Ethereum address: ", <<"0", "x">> \o HexEncode(address)))
  /\ status' = "exited"
  /\ failure' = failure
  /\ pc' = "done"
  /\ UNCHANGED <<array, mnemonic, entropy, seed, path, sk, child_key, signing_key,
                 public_key, pubkey, hash, address, rngCalls, applied, keys, prev>>

\* the program is run again; prev keeps what the last complete run computed
Restart ==
  /\ status \in {"exited", "panicked"}
  /\ prev' = IF status = "exited"
             THEN [array |-> array, mnemonic |-> mnemonic, seed |-> seed,
                   secret_key |-> child_key.secret_key, address |-> address]
             ELSE prev
  /\ pc' = "fill_bytes"
  /\ status' = "running"
  /\ failure' = NoFailure
  /\ array' = None
  /\ mnemonic' = None
  /\ entropy' = None
  /\ seed' = None
  /\ path' = None
  /\ sk' = None
  /\ child_key' = None
  /\ signing_key' = None
  /\ public_key' = None
  /\ pubkey' = None
  /\ hash' = None
  /\ address' = None
  /\ output' = <<>>
  /\ rngCalls' = 0
  /\ applied' = <<>>
  /\ keys' = <<>>
  /\ events' = <<>>

Next ==
  \/ FillBytes
  \/ PrintEntropy
  \/ GenerateMnemonic
  \/ PrintMnemonic
  \/ ToEntropy
  \/ PrintEntropyHex
  \/ ToSeed
  \/ DeriveMaster
  \/ DeriveChild
  \/ SigningKeyFromSlice
  \/ PublicKey
  \/ Keccak
  \/ PrintAddress
  \/ Restart

Spec == Init /\ [][Next]_vars

(* ---------------------------------------------------------------------- *)
(* Properties                                                              *)
(* ---------------------------------------------------------------------- *)

HexVal(c) == (CHOOSE d \in 1..16 : HexDigits[d] = c) - 1

AddressLines == {i \in 1..Len(output) : output[i].label = "Ethereum address: "}

\* C1: the printed address is "0x" and the hex of bytes 12..31 of the
\* Keccak-256 digest of X || Y of the public key of the derived private key
C1_AddressFromPublicKey ==
  \A i \in AddressLines :
    LET text == output[i].text
    IN  /\ public_key = PointMul(child_key.secret_key)
        /\ Len(public_key.x \o public_key.y) = 64
        /\ hash = Keccak256(public_key.x \o public_key.y)
        /\ Len(hash) = 32
        /\ Len(text) = 42
        /\ text[1] = "0" /\ text[2] = "x"
        /\ \A k \in 1..20 :
             HexVal(text[2 * k + 1]) * 16 + HexVal(text[2 * k + 2]) = hash[12 + k]

\* an address has been printed from a digest whose first and last 20 bytes differ
C1_Witness ==
  /\ AddressLines # {}
  /\ SubSeq(hash, 1, 20) # SubSeq(hash, 13, 32)
  /\ public_key.x # public_key.y

LowerHex == {HexDigits[d] : d \in 1..16}

\* C4: an address that is output is "0x" followed by exactly 40 lowercase
\* hexadecimal characters
C4_AddressFormat ==
  \A i \in AddressLines :
    LET text == output[i].text
    IN  /\ Len(text) = 2 + 40
        /\ SubSeq(text, 1, 2) = <<"0", "x">>
        /\ \A k \in 3..Len(text) : text[k] \in LowerHex

\* an address with a letter digit has been printed
C4_Witness ==
  \E i \in AddressLines :
    \E k \in 3..Len(output[i].text) : output[i].text[k] \in {"a", "b", "c", "d", "e", "f"}

\* the stages of main and the labels of its output lines, in program order
StageOrder ==
  <<"fill_bytes", "print_entropy", "generate", "print_mnemonic", "to_entropy",
    "print_entropy_hex", "to_seed", "derive", "signing_key", "public_key", "keccak",
    "print_address">>

LabelOrder == <<"Entropy: ", "Mnemonic phrase", "", "Entropy (hex): ", "Ethereum address: ">>

Labels == [i \in 1..Len(output) |-> output[i].label]

Executed(stage) == \E i \in 1..Len(events) : events[i] = stage

\* C10: the stages of a run execute in one fixed forward order, none twice:
\* entropy bytes printed, mnemonic generated once and displayed, entropy hex
\* printed, then seed, key and, last, the address
C10_ForwardOrder ==
  /\ events = SubSeq(StageOrder, 1, Len(events))
  /\ Labels = SubSeq(LabelOrder, 1, Len(output))
  /\ (seed # None => Executed("print_mnemonic") /\ Len(output) >= 4)
  /\ (status = "exited" => events = StageOrder /\ Labels = LabelOrder)

\* a run has printed the address
C10_Witness == status = "exited" /\ Len(output) = 5 /\ Executed("print_address")

\* what a failed run has not done: no key handed on, no public key computed
\* or hashed, no address line output
StoppedBeforeAddress ==
  /\ AddressLines = {}
  /\ hash = None /\ address = None /\ pubkey = None /\ public_key = None
  /\ child_key = None /\ signing_key = None
  /\ ~Executed("keccak") /\ ~Executed("print_address")

\* C3: once a stage has failed the run stops there: no later stage executes
\* and nothing more is output (the only step left is to start another run),
\* so no public key is hashed and no address line is output
C3_NoAddressAfterFailure ==
  /\ [](failure # NoFailure => StoppedBeforeAddress)
  /\ [][failure # NoFailure =>
          /\ events' = events \/ events' = <<>>
          /\ output' = output \/ output' = <<>>
          /\ applied' = applied \/ applied' = <<>>]_vars

\* key derivation has failed after the master key and at least one child
C3_Witness == failure = "Secp256k1" /\ Len(applied) >= 1 /\ Executed("derive")

\* mnemonic generation has failed
C3_WitnessGenerate == failure = "OsRngError" /\ Executed("generate")

C7_Deterministic ==
  (prev # None /\ mnemonic = prev.mnemonic) =>
    /\ (seed # None => seed = prev.seed)
    /\ (child_key # None => child_key.secret_key = prev.secret_key)
    /\ (address # None => address = prev.address)

\* two complete runs with the same mnemonic and different array draws
C7_Witness ==
  /\ status = "exited" /\ prev # None
  /\ mnemonic = prev.mnemonic /\ array # prev.array

\* 2^31 + 44, 2^31 + 60, 2^31 + 0, 0, 0 as big-endian u32 (2^31 = 0x80000000)
ExpectedChildren ==
  <<<<128, 0, 0, 44>>, <<128, 0, 0, 60>>, <<128, 0, 0, 0>>, <<0, 0, 0, 0>>, <<0, 0, 0, 0>>>>

\* C8: derive starts from the master key of the seed and applies the child
\* numbers 2^31+44, 2^31+60, 2^31+0, 0, 0 in this order; the key handed to
\* the address stage is the result of the fifth step
C8_PathOrder ==
  /\ applied = SubSeq(ExpectedChildren, 1, Len(applied))
  /\ (sk # None => /\ Len(keys) = Len(applied) + 1
                   /\ keys[1] = MasterKey(seed).val
                   /\ sk = keys[Len(keys)])
  /\ \A i \in 1..Len(applied) : keys[i + 1] = ChildKey(keys[i], ExpectedChildren[i]).val
  /\ (child_key # None => applied = ExpectedChildren /\ child_key = keys[6])
  /\ (signing_key # None => signing_key = child_key.secret_key)

\* the derived key has reached the address stage
C8_Witness == signing_key # None /\ Len(applied) = 5 /\ child_key = sk

\* C2 as stated: the entropy recovered from the mnemonic equals the entropy
\* that was sampled and printed as the run's entropy
C2_RoundTrip == entropy # None => entropy = array

\* C5 as stated: the entropy that is sampled and printed has one of the
\* standardized lengths, the one of the mnemonic's word count
C5_StandardLength ==
  Executed("print_entropy") =>
    /\ Len(array) \in {16, 20, 24, 28, 32}
    /\ Len(array) = (WordCount \div 3) * 4

\* C9 as stated: one run calls the OS randomness source exactly once
C9_OneRngCall == rngCalls <= 1 /\ (status = "exited" => rngCalls = 1)

====
